---- MODULE Spec2Model ----
(***************************************************************************)
(* Terminal Task Manager (src/app.py): the task store of TodoApp, its      *)
(* load/save of tasks.json, the menu operations of TodoApp.run and the     *)
(* KeyboardInterrupt handler of main.                                      *)
(*                                                                         *)
(* Text typed by the user is a sequence of code points (<<87,111,114,107>> *)
(* is "Work"), so that str.strip, str.lower, str.split, int() and sorted() *)
(* are computed as Python computes them.  Strings the program only stores  *)
(* and compares (enum labels, created_at) are TLA+ strings.  The enum      *)
(* labels are Cyrillic in the source; they are transliterated here.        *)
(***************************************************************************)
EXTENDS Integers, Sequences, FiniteSets, TLC

VARIABLES
  tasks,          \* TodoApp.tasks: the in-memory collection, in list order
  current_id,     \* TodoApp.current_id: the id the next add assigns
  file,           \* the content of tasks.json on disk
  pc,             \* "stopped": no process; "menu": TodoApp.run waits at the
                  \* menu; "prompt": main asks whether to save after Ctrl-C
  out,            \* what the last step printed, with the input it echoed
  deletedIds,     \* history: ids deleted, as far as the running store knows
  savedDeletedIds,\* history: ids whose deletion reached the file
  lastAddedId     \* history: the id the latest add of this run assigned (0: none)

vars == <<tasks, current_id, file, pc, out, deletedIds, savedDeletedIds, lastAddedId>>

(***************************************************************************)
(* Bounds of the model.                                                    *)
(***************************************************************************)
MaxTasks == 2
MaxId == 2
MaxStatsTasks == 3

(***************************************************************************)
(* Python string and list primitives, on sequences of code points.         *)
(***************************************************************************)
IsSpace(c) == c \in {9, 10, 11, 12, 13, 32}

RECURSIVE LStrip(_)
LStrip(s) == IF s # <<>> /\ IsSpace(Head(s)) THEN LStrip(Tail(s)) ELSE s

RECURSIVE RStrip(_)
RStrip(s) ==
  IF s # <<>> /\ IsSpace(s[Len(s)]) THEN RStrip(SubSeq(s, 1, Len(s) - 1)) ELSE s

\* str.strip()
Strip(s) == RStrip(LStrip(s))

\* str.lower(), on the ASCII letters
Lower(s) == [i \in 1..Len(s) |-> IF s[i] \in 65..90 THEN s[i] + 32 ELSE s[i]]

\* str.split(','): the pieces between the commas, at least one piece
RECURSIVE SplitFrom(_, _, _)
SplitFrom(s, i, piece) ==
  IF i > Len(s) THEN <<piece>>
  ELSE IF s[i] = 44 THEN <<piece>> \o SplitFrom(s, i + 1, <<>>)
  ELSE SplitFrom(s, i + 1, Append(piece, s[i]))

Split(s) == SplitFrom(s, 1, <<>>)

\* a < b in Python's order of str: code point by code point, a prefix first
RECURSIVE StrLess(_, _)
StrLess(a, b) ==
  IF b = <<>> THEN FALSE
  ELSE IF a = <<>> THEN TRUE
  ELSE IF Head(a) # Head(b) THEN Head(a) < Head(b)
  ELSE StrLess(Tail(a), Tail(b))

\* sorted(S) of a set of strings
RECURSIVE Sorted(_)
Sorted(S) ==
  IF S = {} THEN <<>>
  ELSE LET m == CHOOSE x \in S : \A y \in S \ {x} : StrLess(x, y)
       IN <<m>> \o Sorted(S \ {m})

RECURSIVE DigitsValue(_, _)
DigitsValue(s, acc) ==
  IF s = <<>> THEN acc ELSE DigitsValue(Tail(s), 10 * acc + (Head(s) - 48))

\* int(text): surrounding whitespace dropped, an optional sign, decimal digits;
\* anything else raises ValueError (ok = FALSE)
ParseInt(text) ==
  LET s == Strip(text)
      signed == s # <<>> /\ Head(s) \in {43, 45}
      digits == IF signed THEN Tail(s) ELSE s
      good == digits # <<>> /\ \A i \in 1..Len(digits) : digits[i] \in 48..57
  IN IF ~good THEN [ok |-> FALSE, val |-> 0]
     ELSE [ok |-> TRUE,
           val |-> IF signed /\ Head(s) = 45 THEN 0 - DigitsValue(digits, 0)
                   ELSE DigitsValue(digits, 0)]

\* lst[i] of a Python list: i counts from 0, a negative i from the end;
\* outside -len..len-1 it raises IndexError (ok = FALSE)
PyIndex(lst, i) ==
  IF i >= 0 /\ i < Len(lst) THEN [ok |-> TRUE, val |-> lst[i + 1]]
  ELSE IF i < 0 /\ i >= 0 - Len(lst) THEN [ok |-> TRUE, val |-> lst[Len(lst) + i + 1]]
  ELSE [ok |-> FALSE, val |-> ""]

\* str(n) of a natural number
RECURSIVE DecStr(_)
DecStr(n) == IF n < 10 THEN <<48 + n>> ELSE Append(DecStr(n \div 10), 48 + (n % 10))

(***************************************************************************)
(* Priority and Status: members in definition order, and their values.     *)
(***************************************************************************)
PriorityMembers == <<"LOW", "MEDIUM", "HIGH", "URGENT">>
PriorityValue ==
  [LOW |-> "Nizkiy", MEDIUM |-> "Sredniy", HIGH |-> "Vysokiy", URGENT |-> "Srochnyy"]

StatusMembers == <<"TODO", "IN_PROGRESS", "DONE", "CANCELLED">>
StatusValue ==
  [TODO |-> "K vypolneniyu", IN_PROGRESS |-> "V protsesse",
   DONE |-> "Vypolneno", CANCELLED |-> "Otmeneno"]

\* Enum(value): the members with that value (none: ValueError)
ByValue(members, valueOf, label) ==
  {members[i] : i \in {j \in 1..Len(members) : valueOf[members[j]] = label}}

(***************************************************************************)
(* Task and its JSON record.  An optional string is <<>> (None, null) or   *)
(* <<s>>.                                                                  *)
(***************************************************************************)
NoneVal == <<>>

\* mutant of to_dict: the enum members' names are written, not their values
to_dict_enum_names(t) ==
  [id |-> t.id, title |-> t.title, description |-> t.description,
   priority |-> t.priority, status |-> t.status,
   created_at |-> t.created_at, due_date |-> t.due_date, tags |-> t.tags]

to_dict(t) ==
  [id |-> t.id, title |-> t.title, description |-> t.description,
   priority |-> PriorityValue[t.priority], status |-> StatusValue[t.status],
   created_at |-> t.created_at, due_date |-> t.due_date, tags |-> t.tags]

\* dict.get(key, default)
Get(d, key, default) == IF key \in DOMAIN d THEN d[key] ELSE default

\* whether Task(...) of load_tasks raises on this record: a subscripted key is
\* missing (KeyError) or a label is no value of its enum (ValueError)
Raises(d) ==
  \/ ~({"id", "title", "description", "priority", "status", "created_at"} \subseteq DOMAIN d)
  \/ ByValue(PriorityMembers, PriorityValue, d.priority) = {}
  \/ ByValue(StatusMembers, StatusValue, d.status) = {}

from_dict(d) ==
  [id |-> d.id, title |-> d.title, description |-> d.description,
   priority |-> CHOOSE m \in ByValue(PriorityMembers, PriorityValue, d.priority) : TRUE,
   status |-> CHOOSE m \in ByValue(StatusMembers, StatusValue, d.status) : TRUE,
   created_at |-> d.created_at,
   due_date |-> Get(d, "due_date", NoneVal),
   tags |-> Get(d, "tags", <<>>)]

(***************************************************************************)
(* The file: absent, a JSON array of records, or text json.load rejects.   *)
(***************************************************************************)
NoFile == [kind |-> "absent", data |-> <<>>]
Garbage == [kind |-> "garbage", data |-> <<>>]

\* save_tasks: the file holds the array of to_dict(task)
save_tasks(ts) == [kind |-> "json", data |-> [i \in 1..Len(ts) |-> to_dict(ts[i])]]

\* the loop of load_tasks over the records: each task is appended as soon as
\* it is built, and the first record that raises ends the loop
RECURSIVE LoadLoop(_, _, _, _)
LoadLoop(data, i, ts, cur) ==
  IF i > Len(data) THEN [tasks |-> ts, current_id |-> cur, error |-> FALSE]
  ELSE IF Raises(data[i]) THEN [tasks |-> ts, current_id |-> cur, error |-> TRUE]
  ELSE LET t == from_dict(data[i])
       IN LoadLoop(data, i + 1, Append(ts, t), IF t.id >= cur THEN t.id + 1 ELSE cur)

\* TodoApp.__init__ and load_tasks: the store starts empty with current_id 1
load_tasks(f) ==
  IF f.kind = "absent" THEN [tasks |-> <<>>, current_id |-> 1, error |-> FALSE]
  ELSE IF f.kind = "garbage" THEN [tasks |-> <<>>, current_id |-> 1, error |-> TRUE]
  ELSE LoadLoop(f.data, 1, <<>>, 1)

(***************************************************************************)
(* The handlers of the menu, as functions of the store and of the text the *)
(* user types at their prompts.  Each yields the new store and what it     *)
(* printed.                                                                *)
(***************************************************************************)
Result(ts, cur, o) == [tasks |-> ts, current_id |-> cur, out |-> o]

\* the first position of a task with this id, 0 when there is none:
\* next((t for t in self.tasks if t.id == task_id), None)
FindFirst(ts, id) ==
  IF \E i \in 1..Len(ts) : ts[i].id = id
  THEN CHOOSE i \in 1..Len(ts) : ts[i].id = id /\ \A j \in 1..(i - 1) : ts[j].id # id
  ELSE 0

ReplaceAt(ts, i, t) == [ts EXCEPT ![i] = t]

\* list.remove(x): the first element equal to x goes, the rest keep their order
ListRemove(ts, x) ==
  LET i == CHOOSE k \in 1..Len(ts) : ts[k] = x /\ \A j \in 1..(k - 1) : ts[j] # x
  IN SubSeq(ts, 1, i - 1) \o SubSeq(ts, i + 1, Len(ts))

\* what the priority prompt gets when Ctrl-C is pressed at it: input() raises
\* KeyboardInterrupt and returns no text (ETX stands for it here)
KeyboardInterrupt == <<3>>

\* try: list(Priority)[int(input(...)) - 1]; except: Priority.MEDIUM.  The
\* except clause names no exception class, so it takes the KeyboardInterrupt
\* of input() as it takes the ValueError of int() and the IndexError of [].
ChoosePriority(text) ==
  LET p == ParseInt(text)
      r == PyIndex(PriorityMembers, p.val - 1)
  IN IF text = KeyboardInterrupt THEN "MEDIUM"
     ELSE IF p.ok /\ r.ok THEN r.val ELSE "MEDIUM"

\* [tag.strip() for tag in tags_input.split(',') if tag.strip()]
RECURSIVE StripNonEmpty(_)
StripNonEmpty(pieces) ==
  IF pieces = <<>> THEN <<>>
  ELSE IF Strip(Head(pieces)) = <<>> THEN StripNonEmpty(Tail(pieces))
  ELSE <<Strip(Head(pieces))>> \o StripNonEmpty(Tail(pieces))

ParseTags(text) == StripNonEmpty(Split(Strip(text)))

\* mutant of add_task_unchecked: current_id is not advanced
add_task_keeps_current_id(ts, cur, title_in, desc_in, prio_in, due_in, tags_in, now) ==
  LET due == Strip(due_in)
      task == [id |-> cur, title |-> Strip(title_in), description |-> Strip(desc_in),
               priority |-> ChoosePriority(prio_in), status |-> "TODO",
               created_at |-> now,
               due_date |-> IF due # <<>> THEN <<due>> ELSE NoneVal,
               tags |-> ParseTags(tags_in)]
  IN Result(Append(ts, task), cur, [kind |-> "added", id |-> cur, title_in |-> title_in])

add_task_unchecked(ts, cur, title_in, desc_in, prio_in, due_in, tags_in, now) ==
  LET due == Strip(due_in)
      task == [id |-> cur, title |-> Strip(title_in), description |-> Strip(desc_in),
               priority |-> ChoosePriority(prio_in), status |-> "TODO",
               created_at |-> now,
               due_date |-> IF due # <<>> THEN <<due>> ELSE NoneVal,
               tags |-> ParseTags(tags_in)]
  IN Result(Append(ts, task), cur + 1, [kind |-> "added", id |-> cur, title_in |-> title_in])

\* mutant of add_task: the title is not checked
add_task_without_title_check(ts, cur, title_in, desc_in, prio_in, due_in, tags_in, now) ==
  add_task_unchecked(ts, cur, title_in, desc_in, prio_in, due_in, tags_in, now)

add_task(ts, cur, title_in, desc_in, prio_in, due_in, tags_in, now) ==
  IF Strip(title_in) = <<>>
  THEN Result(ts, cur, [kind |-> "add_rejected", title_in |-> title_in])
  ELSE add_task_unchecked(ts, cur, title_in, desc_in, prio_in, due_in, tags_in, now)

\* the status prompt of edit_task: a blank answer keeps the status, and so does
\* an answer for which list(Status)[int(status_input) - 1] raises
EditStatus(old, status_in) ==
  LET s == Strip(status_in)
      p == ParseInt(s)
      r == PyIndex(StatusMembers, p.val - 1)
  IN IF s # <<>> /\ p.ok /\ r.ok THEN r.val ELSE old

\* mutant of edit_task: a blank answer overwrites the field too
edit_task_overwrites_blank(ts, cur, id_in, title_in, desc_in, status_in, stage) ==
  LET p == ParseInt(id_in)
      i == FindFirst(ts, p.val)
      echo == [id_in |-> id_in, title_in |-> title_in, desc_in |-> desc_in,
               status_in |-> status_in]
  IN IF ts = <<>> THEN Result(ts, cur, [kind |-> "no_tasks"])
     ELSE IF ~p.ok THEN Result(ts, cur, [kind |-> "invalid_id"])
     ELSE IF i = 0 THEN Result(ts, cur, [kind |-> "not_found"])
     ELSE LET old == ts[i]
              new == [old EXCEPT
                        !.title = IF stage >= 1 THEN Strip(title_in) ELSE @,
                        !.description = IF stage >= 2 THEN Strip(desc_in) ELSE @,
                        !.status = IF stage >= 3 THEN EditStatus(@, status_in) ELSE @]
          IN Result(ReplaceAt(ts, i, new), cur,
                    [kind |-> "edited", at |-> i, echo |-> echo])

\* edit_task.  stage is the number of its three field prompts (title,
\* description, status) that were answered before the handler was left: 3 when
\* it ran to its end, less when Ctrl-C ended it at a later prompt.
edit_task(ts, cur, id_in, title_in, desc_in, status_in, stage) ==
  LET p == ParseInt(id_in)
      i == FindFirst(ts, p.val)
      echo == [id_in |-> id_in, title_in |-> title_in, desc_in |-> desc_in,
               status_in |-> status_in]
  IN IF ts = <<>> THEN Result(ts, cur, [kind |-> "no_tasks"])
     ELSE IF ~p.ok THEN Result(ts, cur, [kind |-> "invalid_id"])
     ELSE IF i = 0 THEN Result(ts, cur, [kind |-> "not_found"])
     ELSE LET old == ts[i]
              new == [old EXCEPT
                        !.title = IF stage >= 1 /\ Strip(title_in) # <<>>
                                  THEN Strip(title_in) ELSE @,
                        !.description = IF stage >= 2 /\ Strip(desc_in) # <<>>
                                        THEN Strip(desc_in) ELSE @,
                        !.status = IF stage >= 3 THEN EditStatus(@, status_in) ELSE @]
          IN Result(ReplaceAt(ts, i, new), cur,
                    [kind |-> "edited", at |-> i, echo |-> echo])

delete_task(ts, cur, id_in, confirm_in) ==
  LET p == ParseInt(id_in)
      i == FindFirst(ts, p.val)
  IN IF ts = <<>> THEN Result(ts, cur, [kind |-> "no_tasks"])
     ELSE IF ~p.ok THEN Result(ts, cur, [kind |-> "invalid_id"])
     ELSE IF i = 0 THEN Result(ts, cur, [kind |-> "not_found"])
     ELSE IF Lower(confirm_in) = <<121>>
          THEN Result(ListRemove(ts, ts[i]), cur, [kind |-> "deleted", id |-> p.val])
          ELSE Result(ts, cur, [kind |-> "delete_declined"])

complete_task(ts, cur, id_in) ==
  LET p == ParseInt(id_in)
      i == FindFirst(ts, p.val)
  IN IF ts = <<>> THEN Result(ts, cur, [kind |-> "no_tasks"])
     ELSE IF \A k \in 1..Len(ts) : ts[k].status = "DONE"
          THEN Result(ts, cur, [kind |-> "all_done"])
     ELSE IF ~p.ok THEN Result(ts, cur, [kind |-> "invalid_id"])
     ELSE IF i = 0 THEN Result(ts, cur, [kind |-> "not_found"])
     ELSE Result(ReplaceAt(ts, i, [ts[i] EXCEPT !.status = "DONE"]), cur,
                 [kind |-> "completed", id |-> p.val])

(***************************************************************************)
(* Python float arithmetic (IEEE 754 binary64, round to nearest, ties to   *)
(* even) on the values show_stats computes.  A positive float is           *)
(* 1.b2...b53 * 2^e: man holds its 53 significand bits, the leading one    *)
(* first.                                                                  *)
(***************************************************************************)
FloatZero == [zero |-> TRUE, e |-> 0, man |-> <<>>]

\* 2^k
RECURSIVE Pow2(_)
Pow2(k) == IF k = 0 THEN 1 ELSE 2 * Pow2(k - 1)

\* 2^k mod m, by repeated squaring
RECURSIVE Pow2Mod(_, _)
Pow2Mod(k, m) ==
  IF k = 0 THEN 1 % m
  ELSE LET h == Pow2Mod(k \div 2, m)
       IN IF k % 2 = 0 THEN (h * h) % m ELSE (2 * ((h * h) % m)) % m

\* bits + 1, and whether it carried out of the top bit
IncBits(b) ==
  IF \A i \in 1..Len(b) : b[i] = 1
  THEN [bits |-> [i \in 1..Len(b) |-> 0], carry |-> TRUE]
  ELSE LET k == CHOOSE i \in 1..Len(b) : b[i] = 0 /\ \A j \in (i + 1)..Len(b) : b[j] = 1
       IN [bits |-> [i \in 1..Len(b) |-> IF i < k THEN b[i] ELSE IF i = k THEN 1 ELSE 0],
           carry |-> FALSE]

\* the float of 53 significand bits and exponent e, rounded up or not
Rounded(bits, e, up) ==
  LET r == IncBits(bits)
  IN IF ~up THEN [zero |-> FALSE, e |-> e, man |-> bits]
     ELSE IF r.carry
          THEN [zero |-> FALSE, e |-> e + 1, man |-> <<1>> \o SubSeq(r.bits, 1, Len(bits) - 1)]
     ELSE [zero |-> FALSE, e |-> e, man |-> r.bits]

\* num / den brought to den <= num < 2 * den, with the power of two taken out
RECURSIVE Normalize(_, _, _)
Normalize(num, den, e) ==
  IF num < den THEN Normalize(2 * num, den, e - 1)
  ELSE IF num >= 2 * den THEN Normalize(num, 2 * den, e + 1)
  ELSE [num |-> num, den |-> den, e |-> e]

\* the remainder of num * 2^j by den
ShiftedRem(num, den, j) == ((num % den) * Pow2Mod(j, den)) % den

\* the first k quotient bits of num / den, den <= num < 2 * den, by long
\* division: each bit is whether twice the remainder so far reaches den; rest
\* is twice the remainder left after the last bit
DivBits(num, den, k) ==
  [bits |-> [i \in 1..k |-> IF i = 1 THEN 1
                            ELSE IF 2 * ShiftedRem(num, den, i - 2) >= den THEN 1 ELSE 0],
   rest |-> 2 * ShiftedRem(num, den, k - 1)]

\* a / b of two ints, b > 0, a >= 0
FloatDiv(a, b) ==
  IF a = 0 THEN FloatZero
  ELSE LET n == Normalize(a, b, 0)
           q == DivBits(n.num, n.den, 53)
           up == q.rest > n.den \/ (q.rest = n.den /\ q.bits[53] = 1)
       IN Rounded(q.bits, n.e, up)

RECURSIVE NatBits(_)
NatBits(n) == IF n = 0 THEN <<>> ELSE Append(NatBits(n \div 2), n % 2)

RECURSIVE BitsValue(_, _)
BitsValue(b, acc) == IF b = <<>> THEN acc ELSE BitsValue(Tail(b), 2 * acc + Head(b))

\* the k low bits of the number v, the highest first
LowBits(v, k) == [i \in 1..k |-> (v \div Pow2(k - i)) % 2]

\* the bits of n * (the number with these 53 bits), no leading zero: the
\* product is taken limb by limb (17, 18 and 18 bits), the carry passed up
MulBits(b, n) ==
  LET low == n * BitsValue(SubSeq(b, 36, 53), 0)
      mid == n * BitsValue(SubSeq(b, 18, 35), 0) + low \div Pow2(18)
      high == n * BitsValue(SubSeq(b, 1, 17), 0) + mid \div Pow2(18)
  IN NatBits(high) \o LowBits(mid % Pow2(18), 18) \o LowBits(low % Pow2(18), 18)

\* n * x of an int n >= 0 and a float x >= 0
FloatMulNat(n, x) ==
  IF n = 0 \/ x.zero THEN FloatZero
  ELSE LET p == MulBits(x.man, n)
           top == SubSeq(p, 1, 53)
           low == SubSeq(p, 54, Len(p))
           above == low # <<>> /\ low[1] = 1 /\ \E i \in 2..Len(low) : low[i] = 1
           tie == low # <<>> /\ low[1] = 1 /\ \A i \in 2..Len(low) : low[i] = 0
       IN Rounded(top, x.e + (Len(p) - 53), above \/ (tie /\ top[53] = 1))

\* int(x) of a float 0 <= x < 2^53: the digits after the point are dropped
FloatTrunc(x) ==
  IF x.zero \/ x.e < 0 THEN 0 ELSE BitsValue(SubSeq(x.man, 1, x.e + 1), 0)

(***************************************************************************)
(* show_stats and manage_tags: what they report.  The percentages printed  *)
(* beside the counts are not modelled.                                     *)
(***************************************************************************)
bar_length == 30

CountStatus(ts, st) == Cardinality({i \in 1..Len(ts) : ts[i].status = st})

\* mutant of show_stats: the progress is cut to three decimals (0.333) before
\* it is scaled to the bar
show_stats_three_decimals(ts) ==
  LET total == Len(ts)
      done == CountStatus(ts, "DONE")
      filled == (bar_length * ((1000 * done) \div total)) \div 1000
  IN IF total = 0 THEN [kind |-> "no_stats"]
     ELSE [kind |-> "stats", total |-> total,
           counts |-> [DONE |-> done,
                       IN_PROGRESS |-> CountStatus(ts, "IN_PROGRESS"),
                       TODO |-> CountStatus(ts, "TODO")],
           filled |-> filled,
           bar |-> [i \in 1..bar_length |-> IF i <= filled THEN "full" ELSE "empty"]]

show_stats(ts) ==
  LET total == Len(ts)
      done == CountStatus(ts, "DONE")
      progress == FloatDiv(done, total)
      filled == FloatTrunc(FloatMulNat(bar_length, progress))
  IN IF total = 0 THEN [kind |-> "no_stats"]
     ELSE [kind |-> "stats", total |-> total,
           counts |-> [DONE |-> done,
                       IN_PROGRESS |-> CountStatus(ts, "IN_PROGRESS"),
                       TODO |-> CountStatus(ts, "TODO")],
           filled |-> filled,
           bar |-> [i \in 1..bar_length |-> IF i <= filled THEN "full" ELSE "empty"]]

TagsOf(t) == {t.tags[k] : k \in 1..Len(t.tags)}

manage_tags(ts) ==
  LET all_tags == UNION {TagsOf(ts[i]) : i \in 1..Len(ts)}
      order == Sorted(all_tags)
  IN IF all_tags = {} THEN [kind |-> "no_tags"]
     ELSE [kind |-> "tags",
           entries |-> [k \in 1..Len(order) |->
                          [tag |-> order[k],
                           count |-> Cardinality({i \in 1..Len(ts) : order[k] \in TagsOf(ts[i])})]]]

(***************************************************************************)
(* main's handler of KeyboardInterrupt: the answer to "save before exit?"  *)
(* decides whether save_tasks runs.  It yields the file.                   *)
(***************************************************************************)
on_interrupt(ts, f, answer) ==
  IF Lower(answer) = <<121>> THEN [file |-> save_tasks(ts), saved |-> TRUE]
  ELSE [file |-> f, saved |-> FALSE]

(***************************************************************************)
(* What the user types.  An add form is the answers to the five prompts of *)
(* add_task, an edit form the answers to the three field prompts of        *)
(* edit_task.  97 is "a", 32 a space, 44 a comma, 48..57 the digits.       *)
(***************************************************************************)
AddForm(title, desc, prio, due, tags) ==
  [title |-> title, desc |-> desc, prio |-> prio, due |-> due, tags |-> tags]

EditForm(title, desc, status) == [title |-> title, desc |-> desc, status |-> status]

Text_work == <<119, 111, 114, 107>>
Text_Work_Home == <<87, 111, 114, 107, 44, 32, 72, 111, 109, 101>>

BlankAdds ==
  {AddForm(<<>>, <<100>>, <<49>>, <<>>, <<>>), AddForm(<<32, 32>>, <<>>, <<>>, <<49>>, Text_work)}

IdInputs(maxId) == {DecStr(i) : i \in 1..maxId} \cup {<<120>>}

YesNo == {<<89>>, <<110>>}

LifeInputs ==
  [adds |-> BlankAdds \cup {AddForm(<<32, 97>>, <<>>, <<50>>, <<49>>, Text_work)},
   nows |-> {"01.01.2024 10:00"},
   edits |-> {EditForm(<<>>, <<32>>, <<51>>)},
   ids |-> IdInputs(MaxId),
   confirms |-> YesNo,
   maxTasks |-> MaxTasks,
   maxId |-> MaxId]

\* one working session with every field varied
SessionInputs ==
  [adds |-> BlankAdds \cup
            {AddForm(<<32, 97>>, <<>>, <<>>, <<>>, Text_work),
             AddForm(<<98>>, <<100>>, <<52>>, <<49>>, Text_Work_Home)},
   nows |-> {"01.01.2024 10:00"},
   edits |-> {EditForm(<<>>, <<32>>, <<>>),
              EditForm(<<99, 32>>, <<>>, <<>>),
              EditForm(<<32>>, <<101>>, <<52>>)},
   ids |-> IdInputs(MaxId),
   confirms |-> YesNo,
   maxTasks |-> MaxTasks,
   maxId |-> MaxId]

\* stores of up to MaxStatsTasks tasks of every status, with tags that differ
\* in case only
StatsInputs ==
  [adds |-> {AddForm(<<97>>, <<>>, <<>>, <<>>, Text_Work_Home),
             AddForm(<<98>>, <<>>, <<>>, <<>>, Text_work)},
   nows |-> {"01.01.2024 10:00"},
   edits |-> {EditForm(<<>>, <<>>, <<50>>), EditForm(<<>>, <<>>, <<52>>)},
   ids |-> IdInputs(MaxStatsTasks),
   confirms |-> YesNo,
   maxTasks |-> MaxStatsTasks,
   maxId |-> MaxStatsTasks]

\* answers to the status prompt of edit_task that are none of the offered
\* 1..4: "0", "-1", "-4", "5", "x"; and the offered "2"
StatusInputs ==
  [adds |-> {AddForm(<<97>>, <<>>, <<>>, <<>>, <<>>)},
   nows |-> {"01.01.2024 10:00"},
   edits |-> {EditForm(<<>>, <<>>, <<48>>), EditForm(<<>>, <<>>, <<45, 49>>),
              EditForm(<<>>, <<>>, <<45, 52>>), EditForm(<<>>, <<>>, <<53>>),
              EditForm(<<>>, <<>>, <<120>>), EditForm(<<>>, <<>>, <<50>>)},
   ids |-> IdInputs(MaxId),
   confirms |-> YesNo,
   maxTasks |-> MaxTasks,
   maxId |-> MaxId]

(***************************************************************************)
(* The steps.                                                              *)
(***************************************************************************)
Init ==
  /\ tasks = <<>>
  /\ current_id = 1
  /\ file = NoFile
  /\ pc = "stopped"
  /\ out = [kind |-> "none"]
  /\ deletedIds = {}
  /\ savedDeletedIds = {}
  /\ lastAddedId = 0

\* a handler's result r becomes the store; the process goes on at nextpc
Handled(r, o, nextpc) ==
  /\ tasks' = r.tasks
  /\ current_id' = r.current_id
  /\ out' = o
  /\ pc' = nextpc
  /\ deletedIds' = IF r.out.kind = "deleted" THEN deletedIds \cup {r.out.id} ELSE deletedIds
  /\ lastAddedId' = IF r.out.kind = "added" THEN r.out.id ELSE lastAddedId
  /\ UNCHANGED <<file, savedDeletedIds>>

\* the model's bounds on the store: an add that creates a task needs room
Room(P, r) == r.out.kind = "added" => Len(tasks) < P.maxTasks /\ current_id <= P.maxId

\* the process ends: its memory is gone
Exited(f, o, saved) ==
  /\ file' = f
  /\ out' = o
  /\ pc' = "stopped"
  /\ tasks' = <<>>
  /\ current_id' = 1
  /\ savedDeletedIds' = IF saved THEN deletedIds ELSE savedDeletedIds
  /\ deletedIds' = {}
  /\ lastAddedId' = 0

\* main: TodoApp() loads the file, then run() shows the menu
Start ==
  /\ pc = "stopped"
  /\ LET r == load_tasks(file)
     IN /\ tasks' = r.tasks
        /\ current_id' = r.current_id
        /\ out' = [kind |-> IF r.error THEN "load_error" ELSE "loaded"]
  /\ pc' = "menu"
  /\ deletedIds' = savedDeletedIds
  /\ lastAddedId' = 0
  /\ UNCHANGED <<file, savedDeletedIds>>

\* menu choice 2
AddTask(P) ==
  /\ pc = "menu"
  /\ \E f \in P.adds, now \in P.nows :
       LET r == add_task(tasks, current_id, f.title, f.desc, f.prio, f.due, f.tags, now)
       IN Room(P, r) /\ Handled(r, r.out, "menu")

\* menu choice 3
EditTask(P) ==
  /\ pc = "menu"
  /\ \E id_in \in P.ids, f \in P.edits :
       LET r == edit_task(tasks, current_id, id_in, f.title, f.desc, f.status, 3)
       IN Handled(r, r.out, "menu")

\* menu choice 4
CompleteTask(P) ==
  /\ pc = "menu"
  /\ \E id_in \in P.ids :
       LET r == complete_task(tasks, current_id, id_in)
       IN Handled(r, r.out, "menu")

\* menu choice 5
DeleteTask(P) ==
  /\ pc = "menu"
  /\ \E id_in \in P.ids, c \in P.confirms :
       LET r == delete_task(tasks, current_id, id_in, c)
       IN Handled(r, r.out, "menu")

\* menu choice 7
ShowStats ==
  /\ pc = "menu"
  /\ out' = show_stats(tasks)
  /\ UNCHANGED <<tasks, current_id, file, pc, deletedIds, savedDeletedIds, lastAddedId>>

\* menu choice 8
ManageTags ==
  /\ pc = "menu"
  /\ out' = manage_tags(tasks)
  /\ UNCHANGED <<tasks, current_id, file, pc, deletedIds, savedDeletedIds, lastAddedId>>

\* menu choice 9
SaveAndExit ==
  /\ pc = "menu"
  /\ Exited(save_tasks(tasks), [kind |-> "saved_exit"], TRUE)

\* menu choice 0
ExitWithoutSaving ==
  /\ pc = "menu"
  /\ Exited(file, [kind |-> "unsaved_exit"], FALSE)

(***************************************************************************)
(* Ctrl-C.  input() raises KeyboardInterrupt at whatever prompt the        *)
(* process waits at.  Where no handler catches it, run() does not either,  *)
(* main does and asks whether to save; a handler left at one of its        *)
(* prompts has done what precedes that prompt.  The priority prompt of     *)
(* add_task stands in a try whose except catches everything.               *)
(***************************************************************************)
Interrupted(during) == [kind |-> "interrupted", during |-> during]

\* at the menu, or at a prompt of a handler that has changed nothing yet
InterruptIdle ==
  /\ pc = "menu"
  /\ out' = Interrupted("nothing")
  /\ pc' = "prompt"
  /\ UNCHANGED <<tasks, current_id, file, deletedIds, savedDeletedIds, lastAddedId>>

\* at the closing "press Enter" of add_task
InterruptInAdd(P) ==
  /\ pc = "menu"
  /\ \E f \in P.adds, now \in P.nows :
       LET r == add_task(tasks, current_id, f.title, f.desc, f.prio, f.due, f.tags, now)
       IN Room(P, r) /\ Handled(r, Interrupted(r.out.kind), "prompt")

\* at the priority prompt of add_task: the except of lines 161-165 takes the
\* KeyboardInterrupt, the priority is MEDIUM, add_task goes on with its due
\* date and tags prompts, creates the task and returns to the menu
InterruptAtPriorityPrompt(P) ==
  /\ pc = "menu"
  /\ \E f \in P.adds, now \in P.nows :
       LET r == add_task(tasks, current_id, f.title, f.desc, KeyboardInterrupt,
                         f.due, f.tags, now)
       IN /\ r.out.kind = "added"
          /\ Room(P, r)
          /\ Handled(r, Interrupted("priority prompt"), "menu")

\* at the description prompt, the status prompt or the closing prompt of edit_task
InterruptInEdit(P) ==
  /\ pc = "menu"
  /\ \E id_in \in P.ids, f \in P.edits, stage \in 1..3 :
       LET r == edit_task(tasks, current_id, id_in, f.title, f.desc, f.status, stage)
       IN Handled(r, Interrupted(r.out.kind), "prompt")

\* at the closing prompt of complete_task
InterruptInComplete(P) ==
  /\ pc = "menu"
  /\ \E id_in \in P.ids :
       LET r == complete_task(tasks, current_id, id_in)
       IN Handled(r, Interrupted(r.out.kind), "prompt")

\* at the closing prompt of delete_task
InterruptInDelete(P) ==
  /\ pc = "menu"
  /\ \E id_in \in P.ids, c \in P.confirms :
       LET r == delete_task(tasks, current_id, id_in, c)
       IN Handled(r, Interrupted(r.out.kind), "prompt")

\* inside save_tasks of menu choice 9: KeyboardInterrupt is no Exception, so
\* save_tasks does not catch it; the file, opened for writing, is left cut
\* short, or complete when the interrupt comes after the last write
InterruptInSave ==
  /\ pc = "menu"
  /\ \E whole \in BOOLEAN :
       /\ file' = IF whole THEN save_tasks(tasks) ELSE Garbage
       /\ savedDeletedIds' = IF whole THEN deletedIds ELSE savedDeletedIds
  /\ out' = Interrupted("save")
  /\ pc' = "prompt"
  /\ UNCHANGED <<tasks, current_id, deletedIds, lastAddedId>>

\* main, except KeyboardInterrupt: the answer to "save before exit? (y/N)"
AnswerSavePrompt(P) ==
  /\ pc = "prompt"
  /\ \E answer \in P.confirms :
       LET r == on_interrupt(tasks, file, answer)
       IN Exited(r.file,
                 [kind |-> IF r.saved THEN "interrupt_saved" ELSE "interrupt_unsaved",
                  answer |-> answer],
                 r.saved)

\* a second Ctrl-C: at the save prompt it ends the process with the file
\* untouched, inside the handler's save_tasks with the file cut short
KilledAtSavePrompt ==
  /\ pc = "prompt"
  /\ \E f \in {file, Garbage} : Exited(f, [kind |-> "killed"], FALSE)

(***************************************************************************)
(* Between two runs the file may be damaged from outside: a label that is  *)
(* no value of its enum, a key missing from a record, or text that is not  *)
(* JSON.  Only a file that save_tasks wrote whole is damaged, and once.    *)
(***************************************************************************)
Whole(f) ==
  /\ f.kind = "json"
  /\ \A i \in 1..Len(f.data) :
       /\ ~Raises(f.data[i])
       /\ {"due_date", "tags"} \subseteq DOMAIN f.data[i]

DropKey(d, key) == [k \in DOMAIN d \ {key} |-> d[k]]

Damages(d) ==
  {[d EXCEPT !.priority = "?"], [d EXCEPT !.status = "?"],
   DropKey(d, "title"), DropKey(d, "tags"), DropKey(d, "due_date")}

DamageFile ==
  /\ pc = "stopped"
  /\ Whole(file)
  /\ \/ file' = Garbage
     \/ \E i \in 1..Len(file.data) : \E d \in Damages(file.data[i]) :
          file' = [file EXCEPT !.data[i] = d]
  /\ UNCHANGED <<tasks, current_id, pc, out, deletedIds, savedDeletedIds, lastAddedId>>

(***************************************************************************)
(* Spec: runs of the program one after another over the same file, ended   *)
(* by the menu or by Ctrl-C.                                               *)
(***************************************************************************)
Next ==
  \/ Start
  \/ AddTask(LifeInputs)
  \/ EditTask(LifeInputs)
  \/ CompleteTask(LifeInputs)
  \/ DeleteTask(LifeInputs)
  \/ SaveAndExit
  \/ ExitWithoutSaving
  \/ InterruptIdle
  \/ InterruptInAdd(LifeInputs)
  \/ InterruptAtPriorityPrompt(LifeInputs)
  \/ InterruptInEdit(LifeInputs)
  \/ InterruptInComplete(LifeInputs)
  \/ InterruptInDelete(LifeInputs)
  \/ InterruptInSave
  \/ AnswerSavePrompt(LifeInputs)
  \/ KilledAtSavePrompt

Spec == Init /\ [][Next]_vars

(***************************************************************************)
(* SpecDamage: runs over a file that may be damaged between them.          *)
(***************************************************************************)
NextDamage ==
  \/ Start
  \/ AddTask(LifeInputs)
  \/ EditTask(LifeInputs)
  \/ CompleteTask(LifeInputs)
  \/ DeleteTask(LifeInputs)
  \/ SaveAndExit
  \/ ExitWithoutSaving
  \/ DamageFile

SpecDamage == Init /\ [][NextDamage]_vars

(***************************************************************************)
(* SpecSession: the first run, in which the user adds, edits, completes    *)
(* and deletes tasks with every field varied, its save, and the runs that  *)
(* load what it saved.                                                     *)
(***************************************************************************)
FirstRun == file.kind = "absent"

NextSession ==
  \/ Start
  \/ FirstRun /\ AddTask(SessionInputs)
  \/ FirstRun /\ EditTask(SessionInputs)
  \/ FirstRun /\ CompleteTask(SessionInputs)
  \/ FirstRun /\ DeleteTask(SessionInputs)
  \/ SaveAndExit

SpecSession == Init /\ [][NextSession]_vars

(***************************************************************************)
(* SpecStats: one run over a store of up to MaxStatsTasks tasks, with the  *)
(* statistics and the tag list.                                            *)
(***************************************************************************)
NextStats ==
  \/ Start
  \/ AddTask(StatsInputs)
  \/ EditTask(StatsInputs)
  \/ CompleteTask(StatsInputs)
  \/ DeleteTask(StatsInputs)
  \/ ShowStats
  \/ ManageTags

SpecStats == Init /\ [][NextStats]_vars

(***************************************************************************)
(* SpecStatus: runs in which the status prompt of edit_task is answered    *)
(* with something else than an offered number.                             *)
(***************************************************************************)
NextStatus ==
  \/ Start
  \/ AddTask(StatusInputs)
  \/ EditTask(StatusInputs)
  \/ CompleteTask(StatusInputs)
  \/ DeleteTask(StatusInputs)
  \/ SaveAndExit

SpecStatus == Init /\ [][NextStatus]_vars

(***************************************************************************)
(* The claims.                                                             *)
(***************************************************************************)
Ids(ts) == {ts[i].id : i \in 1..Len(ts)}

UniqueIds == \A i, j \in 1..Len(tasks) : i # j => tasks[i].id # tasks[j].id

\* C1: once a task with id i has been deleted, no task with id i is in the
\* store again: no lookup finds it and no add assigns it, in the same run or
\* in a later run that loads the file saved after the deletion.
C1_DeletedIdNeverReturns == \A i \in 1..Len(tasks) : tasks[i].id \notin deletedIds

\* C2: when load fails on an existing file, the run starts with an empty
\* store: no task and current_id 1, whatever preceded the bad record.
C2_FailedLoadLeavesEmptyStore ==
  out.kind = "load_error" => pc = "menu" /\ tasks = <<>> /\ current_id = 1

\* C3: within a run the id of each newly added task is greater than the id of
\* the add before it, and no two tasks of the store share an id, whatever
\* edits, completions and deletions come between.
C3_AddedIdsIncreaseAndStayUnique ==
  /\ []UniqueIds
  /\ [][pc = "menu" /\ Len(tasks') = Len(tasks) + 1 =>
          /\ tasks'[Len(tasks')].id > lastAddedId
          /\ tasks'[Len(tasks')].id \notin Ids(tasks)
          /\ lastAddedId' = tasks'[Len(tasks')].id]_vars

\* C3 witness: an add that follows a delete of the same run
C3_Witness_AddAfterDelete ==
  pc = "menu" /\ lastAddedId = 2 /\ 1 \in deletedIds /\ Len(tasks) = 1

\* C4: saving the collection and loading the saved file into a fresh store
\* gives the same tasks in the same order, every field equal, without error.
C4_SaveThenLoadReproducesTasks ==
  pc = "menu" =>
    LET r == load_tasks(save_tasks(tasks)) IN r.tasks = tasks /\ ~r.error

\* C4 witness: a run has loaded a saved file of two tasks, one without and
\* one with a due date, of different status, one with two tags
C4_Witness_LoadedTwoTasks ==
  /\ out.kind = "loaded" /\ file.kind = "json" /\ Len(tasks) = 2
  /\ tasks[1].due_date = NoneVal /\ tasks[2].due_date # NoneVal
  /\ tasks[1].status # tasks[2].status
  /\ Len(tasks[2].tags) = 2

\* C5 as stated: with 3 tasks of which 1 is Done the bar has 9 filled cells
\* followed by 21 unfilled ones.
C5_OneOfThreeDoneFillsNineCells ==
  out.kind = "stats" /\ Len(tasks) = 3 /\ CountStatus(tasks, "DONE") = 1 =>
    /\ out.filled = 9
    /\ out.bar = [i \in 1..30 |-> IF i <= 9 THEN "full" ELSE "empty"]

\* C5 as amended: with 3 tasks of which 1 is Done the bar has 10 filled cells
\* followed by 20 unfilled ones.
C5_OneOfThreeDoneFillsTenCells ==
  out.kind = "stats" /\ Len(tasks) = 3 /\ CountStatus(tasks, "DONE") = 1 =>
    /\ out.filled = 10
    /\ out.bar = [i \in 1..30 |-> IF i <= 10 THEN "full" ELSE "empty"]

\* C5 witness: the statistics of 3 tasks of which 1 is Done are on the screen
C5_Witness_StatsOfThree ==
  out.kind = "stats" /\ Len(tasks) = 3 /\ CountStatus(tasks, "DONE") = 1

RECURSIVE SumOver(_, _)
SumOver(c, keys) ==
  IF keys = {} THEN 0
  ELSE LET k == CHOOSE x \in keys : TRUE IN c[k] + SumOver(c, keys \ {k})

\* C6: the statistics of a non-empty store report a count for each of the
\* four statuses, and the reported counts sum to the reported total.
C6_StatsCountEveryStatus ==
  out.kind = "stats" =>
    /\ DOMAIN out.counts = {StatusMembers[i] : i \in 1..Len(StatusMembers)}
    /\ SumOver(out.counts, DOMAIN out.counts) = out.total

\* C7: an edit of an existing id overwrites the title and the description
\* with what was typed when it is not blank, the status with the offered
\* status that was chosen, keeps each field whose answer was blank, and
\* leaves the task's id, created_at, priority, due_date and tags, every other
\* task, the order and current_id as they were.
C7_EditOverwritesOnlySuppliedFields ==
  [][pc = "menu" /\ out'.kind = "edited" =>
       LET i == out'.at
           e == out'.echo
           old == tasks[i]
           new == tasks'[i]
           choice == ParseInt(e.status_in)
       IN /\ old.id = ParseInt(e.id_in).val
          /\ Len(tasks') = Len(tasks)
          /\ \A j \in 1..Len(tasks) : j # i => tasks'[j] = tasks[j]
          /\ current_id' = current_id
          /\ new.id = old.id /\ new.created_at = old.created_at
          /\ new.priority = old.priority /\ new.due_date = old.due_date
          /\ new.tags = old.tags
          /\ new.title = IF Strip(e.title_in) # <<>> THEN Strip(e.title_in) ELSE old.title
          /\ new.description =
               IF Strip(e.desc_in) # <<>> THEN Strip(e.desc_in) ELSE old.description
          /\ Strip(e.status_in) = <<>> => new.status = old.status
          /\ choice.ok /\ choice.val \in 1..Len(StatusMembers) =>
               new.status = StatusMembers[choice.val]]_vars

\* C7 witness: the second of two tasks got a new title and nothing else
C7_Witness_TitleEdited ==
  /\ out.kind = "edited" /\ Len(tasks) = 2 /\ out.at = 2
  /\ out.echo.title_in = <<99, 32>> /\ tasks[2].title = <<99>>
  /\ tasks[2].description = <<100>>

\* the tags of the store with case folded, each with the number of tasks that
\* carry it in any case, in ascending order
FoldedTagCounts(ts) ==
  LET folded(t) == {Lower(x) : x \in TagsOf(t)}
      order == Sorted(UNION {folded(ts[i]) : i \in 1..Len(ts)})
  IN [k \in 1..Len(order) |->
        [tag |-> order[k],
         count |-> Cardinality({i \in 1..Len(ts) : order[k] \in folded(ts[i])})]]

\* C8: the tag list counts tags with case folded: tags that differ only in
\* case are one entry, counted once per task that carries any of them, and
\* the entries are in ascending order.
C8_TagsCountedCaseFolded ==
  out.kind = "tags" =>
    [k \in 1..Len(out.entries) |->
       [tag |-> Lower(out.entries[k].tag), count |-> out.entries[k].count]]
      = FoldedTagCounts(tasks)

\* C9: an add whose title is empty or only whitespace creates no task: the
\* collection and current_id are after it what they were before it.
C9_BlankTitleAddChangesNothing ==
  [][pc = "menu" /\ out'.kind \in {"added", "add_rejected"}
       /\ Strip(out'.title_in) = <<>> =>
          out'.kind = "add_rejected" /\ tasks' = tasks /\ current_id' = current_id]_vars

\* C9 witness: an add of a whitespace-only title was turned down on a store
\* that holds a task
C9_Witness_BlankRejected ==
  out.kind = "add_rejected" /\ out.title_in = <<32, 32>> /\ tasks # <<>>

\* C10: a Ctrl-C while the loop runs, at the menu or inside an operation,
\* leads to the save prompt; from the prompt the process only exits and the
\* loop does not resume; an accepting answer leaves the file holding the
\* collection in memory, any other answer leaves the file as it was.
C10_InterruptOffersSaveThenExits ==
  [][/\ pc = "menu" /\ out'.kind = "interrupted" => pc' = "prompt"
     /\ pc = "prompt" =>
          /\ pc' = "stopped"
          /\ out'.kind \in {"interrupt_saved", "interrupt_unsaved"} =>
               IF Lower(out'.answer) = <<121>>
               THEN file' = save_tasks(tasks) /\ out'.kind = "interrupt_saved"
               ELSE file' = file /\ out'.kind = "interrupt_unsaved"]_vars

\* C11: in an edit, an answer to the status prompt that is none of the
\* offered numbers 1..4 (0, a negative number, 5, text that is no number)
\* is ignored: the task's status after the edit is its status before it.
C11_InvalidStatusChoiceIgnored ==
  [][pc = "menu" /\ out'.kind = "edited" =>
       LET choice == ParseInt(out'.echo.status_in)
       IN ~(choice.ok /\ choice.val \in 1..Len(StatusMembers)) =>
            tasks'[out'.at].status = tasks[out'.at].status]_vars

====
